---- MODULE Spec2Model ----
(***************************************************************************)
(* Model of the Tic Tac Toe component of src/tic_tac_toe_frontend/src/     *)
(* App.js: the seven useState cells of App, the three event handlers       *)
(* (handleSquareClick, handleReset, toggleTheme), the theme effect and the *)
(* pure function calculateWinner.                                          *)
(*                                                                         *)
(* The board is a function 0..8 -> {"", "X", "O"} as in the source         *)
(* (zero-based, "" is the empty cell).  Each click event runs its handler  *)
(* to completion and the component is re-rendered before the next event,   *)
(* so a handler is one atomic action over the committed state.             *)
(***************************************************************************)
EXTENDS Integers, Sequences, FiniteSets, TLC

VARIABLES
    board,        \* useState(Array(9).fill(""))            App.js:17
    isXNext,      \* useState(true)                         App.js:19
    winner,       \* useState(null)                         App.js:21
    winningLine,  \* useState([])                           App.js:23
    isTie,        \* useState(false)                        App.js:25
    lastMove,     \* useState(null)                         App.js:27
    theme,        \* useState('light')                      App.js:29
    dataTheme,    \* document.documentElement data-theme    App.js:33
    event,        \* history: the event processed by the last step (kind,
                  \* index, whether the guard let it through, the outcome
                  \* displayed when it arrived) and n, the number of
                  \* placements accepted since the last reset
    squares,      \* evaluator harness: argument of calculateWinner
    res,          \* evaluator harness: value returned by calculateWinner
    out,          \* evaluator harness: outcome settled from res (App.js:48-59)
    evalPc        \* evaluator harness: "idle" | "call" | "returned"

gameVars == <<board, isXNext, winner, winningLine, isTie, lastMove>>
themeVars == <<theme, dataTheme>>
evalVars == <<squares, res, out, evalPc>>
vars == <<board, isXNext, winner, winningLine, isTie, lastMove,
          theme, dataTheme, event, squares, res, out, evalPc>>

----------------------------------------------------------------------------
(* Values *)

Cells == 0..8
Marks == {"X", "O"}
Empty == ""
null == "null"
NoMove == -1

\* The count of accepted placements in the history record saturates here.
PlacementCap == 12

countedUp(n) == IF n < PlacementCap THEN n + 1 ELSE n

emptyBoard == [i \in Cells |-> Empty]
AllBoards == [Cells -> {Empty, "X", "O"}]

\* App.js:77-86, in source order
lines ==
    << <<0, 1, 2>>, <<3, 4, 5>>, <<6, 7, 8>>,
       <<0, 3, 6>>, <<1, 4, 7>>, <<2, 5, 8>>,
       <<0, 4, 8>>, <<2, 4, 6>> >>

----------------------------------------------------------------------------
(* calculateWinner, App.js:75-98: scan the lines in order, return at the   *)
(* first line whose three squares are truthy and equal.                    *)

RECURSIVE scanLinesLast(_, _)
scanLinesLast(sq, k) ==
    IF k < 1
    THEN [winner |-> null, line |-> <<>>]
    ELSE LET a == lines[k][1]
             b == lines[k][2]
             c == lines[k][3]
         IN  IF sq[a] # Empty /\ sq[a] = sq[b] /\ sq[a] = sq[c]
             THEN [winner |-> sq[a], line |-> lines[k]]
             ELSE scanLinesLast(sq, k - 1)

RECURSIVE scanLines(_, _)
scanLines(sq, k) ==
    IF k > Len(lines)
    THEN [winner |-> null, line |-> <<>>]
    ELSE LET a == lines[k][1]
             b == lines[k][2]
             c == lines[k][3]
         IN  IF sq[a] # Empty /\ sq[a] = sq[b] /\ sq[a] = sq[c]
             THEN [winner |-> sq[a], line |-> lines[k]]
             ELSE scanLines(sq, k + 1)

calculateWinnerLastLine(sq) == scanLinesLast(sq, Len(lines))

calculateWinner(sq) == scanLines(sq, 1)

----------------------------------------------------------------------------
(* Pieces of handleSquareClick, App.js:38-60 *)

\* App.js:39  if (board[idx] !== "" || winner) return;
clickIgnoredNoOccupied(idx) == winner # null

clickIgnoredNoWinner(idx) == board[idx] # Empty

clickIgnored(idx) == board[idx] # Empty \/ winner # null

\* App.js:41  isXNext ? "X" : "O"
currentMarkAlwaysX == "X"

currentMark == IF isXNext THEN "X" ELSE "O"

\* App.js:43  setIsXNext(!isXNext)
toggledTurnStuck == isXNext

toggledTurnAlwaysO == FALSE

toggledTurn == ~isXNext

\* App.js:52  nextBoard.every((cell) => cell !== "")
everyFilled(nextBoard) == \A i \in Cells : nextBoard[i] # Empty

\* App.js:48-59: the values handed to setWinner, setWinningLine, setIsTie.
\* The tie branch calls no setWinningLine, so the line keeps its value.
settleTieFirst(nextBoard, r, prevLine) ==
    IF everyFilled(nextBoard)
    THEN [winner |-> null, winningLine |-> prevLine, isTie |-> TRUE]
    ELSE IF r.winner # null
    THEN [winner |-> r.winner, winningLine |-> r.line, isTie |-> FALSE]
    ELSE [winner |-> null, winningLine |-> <<>>, isTie |-> FALSE]

settleNoTie(nextBoard, r, prevLine) ==
    IF r.winner # null
    THEN [winner |-> r.winner, winningLine |-> r.line, isTie |-> FALSE]
    ELSE [winner |-> null, winningLine |-> <<>>, isTie |-> FALSE]

settle(nextBoard, r, prevLine) ==
    IF r.winner # null
    THEN [winner |-> r.winner, winningLine |-> r.line, isTie |-> FALSE]
    ELSE IF everyFilled(nextBoard)
    THEN [winner |-> null, winningLine |-> prevLine, isTie |-> TRUE]
    ELSE [winner |-> null, winningLine |-> <<>>, isTie |-> FALSE]

----------------------------------------------------------------------------
(* The outcome the component displays, App.js:138-145: winner first, then  *)
(* the tie flag, otherwise the game is in progress.                        *)

Outcome ==
    IF winner # null THEN "Win"
    ELSE IF isTie THEN "Tie"
    ELSE "InProgress"

----------------------------------------------------------------------------
(* What the render shows, App.js:107-145 *)

\* App.js:121  disabled={!!board[idx] || !!winner || isTie}
disabledNoWinner(idx) == board[idx] # Empty \/ isTie

disabled(idx) == board[idx] # Empty \/ winner # null \/ isTie

\* App.js:138-145, the text as the pair <<prefix, interpolated mark>>
statusMsgInverted ==
    IF winner # null THEN <<"Winner: ", winner>>
    ELSE IF isTie THEN <<"It's a tie!", "">>
    ELSE <<"Next: ", IF isXNext THEN "O" ELSE "X">>

statusMsg ==
    IF winner # null THEN <<"Winner: ", winner>>
    ELSE IF isTie THEN <<"It's a tie!", "">>
    ELSE <<"Next: ", IF isXNext THEN "X" ELSE "O">>

----------------------------------------------------------------------------
(* Initial state: the useState initialisers and the first run of the theme *)
(* effect (App.js:17-34).                                                  *)

idleRes == [winner |-> null, line |-> <<>>]
idleOut == [winner |-> null, winningLine |-> <<>>, isTie |-> FALSE]

GameInit ==
    /\ board = emptyBoard
    /\ isXNext = TRUE
    /\ winner = null
    /\ winningLine = <<>>
    /\ isTie = FALSE
    /\ lastMove = NoMove
    /\ theme = "light"
    /\ dataTheme = "light"
    /\ event = [kind |-> "init", idx |-> NoMove, accepted |-> TRUE,
                from |-> "InProgress", n |-> 0]

Init ==
    /\ GameInit
    /\ squares = emptyBoard
    /\ res = idleRes
    /\ out = idleOut
    /\ evalPc = "idle"

----------------------------------------------------------------------------
(* Handlers *)

\* App.js:38-60
handleSquareClick(idx) ==
    IF clickIgnored(idx)
    THEN /\ event' = [kind |-> "place", idx |-> idx, accepted |-> FALSE,
                    from |-> Outcome, n |-> event.n]
         /\ UNCHANGED <<gameVars, themeVars, evalVars>>
    ELSE LET nextBoard == [board EXCEPT ![idx] = currentMark]
             r == calculateWinner(nextBoard)
             o == settle(nextBoard, r, winningLine)
         IN  /\ board' = nextBoard
             /\ isXNext' = toggledTurn
             /\ lastMove' = idx
             /\ winner' = o.winner
             /\ winningLine' = o.winningLine
             /\ isTie' = o.isTie
             /\ event' = [kind |-> "place", idx |-> idx, accepted |-> TRUE,
                        from |-> Outcome, n |-> countedUp(event.n)]
             /\ UNCHANGED <<themeVars, evalVars>>

\* App.js:64-71
handleResetKeepsWinner ==
    /\ board' = emptyBoard
    /\ isXNext' = TRUE
    /\ winningLine' = <<>>
    /\ isTie' = FALSE
    /\ lastMove' = NoMove
    /\ event' = [kind |-> "reset", idx |-> NoMove, accepted |-> TRUE,
                 from |-> Outcome, n |-> 0]
    /\ UNCHANGED <<winner, themeVars, evalVars>>

handleResetKeepsLastMove ==
    /\ board' = emptyBoard
    /\ isXNext' = TRUE
    /\ winner' = null
    /\ winningLine' = <<>>
    /\ isTie' = FALSE
    /\ event' = [kind |-> "reset", idx |-> NoMove, accepted |-> TRUE,
                 from |-> Outcome, n |-> 0]
    /\ UNCHANGED <<lastMove, themeVars, evalVars>>

handleResetAlsoTheme ==
    /\ board' = emptyBoard
    /\ isXNext' = TRUE
    /\ winner' = null
    /\ winningLine' = <<>>
    /\ isTie' = FALSE
    /\ lastMove' = NoMove
    /\ theme' = "light"
    /\ dataTheme' = "light"
    /\ event' = [kind |-> "reset", idx |-> NoMove, accepted |-> TRUE,
                 from |-> Outcome, n |-> 0]
    /\ UNCHANGED evalVars

handleReset ==
    /\ board' = emptyBoard
    /\ isXNext' = TRUE
    /\ winner' = null
    /\ winningLine' = <<>>
    /\ isTie' = FALSE
    /\ lastMove' = NoMove
    /\ event' = [kind |-> "reset", idx |-> NoMove, accepted |-> TRUE,
                 from |-> Outcome, n |-> 0]
    /\ UNCHANGED <<themeVars, evalVars>>

\* App.js:102-104, followed by the effect of App.js:32-34 on the re-render
toggleThemeNoEffect ==
    /\ theme' = IF theme = "light" THEN "dark" ELSE "light"
    /\ event' = [kind |-> "toggle", idx |-> NoMove, accepted |-> TRUE,
                 from |-> Outcome, n |-> event.n]
    /\ UNCHANGED <<dataTheme, gameVars, evalVars>>

toggleTheme ==
    /\ theme' = IF theme = "light" THEN "dark" ELSE "light"
    /\ dataTheme' = theme'
    /\ event' = [kind |-> "toggle", idx |-> NoMove, accepted |-> TRUE,
                 from |-> Outcome, n |-> event.n]
    /\ UNCHANGED <<gameVars, evalVars>>

Next ==
    \/ \E idx \in Cells : handleSquareClick(idx)
    \/ handleReset
    \/ toggleTheme

Spec == Init /\ [][Next]_vars

\* The page as the user drives it: a disabled button dispatches no click
\* (App.js:119-121), so clicks arrive on enabled cells only, and while a
\* cell is enabled the players keep clicking one.
enabledClick ==
    \E idx \in Cells : ~disabled(idx) /\ handleSquareClick(idx)

NextUI ==
    \/ enabledClick
    \/ handleReset
    \/ toggleTheme

SpecFair == Init /\ [][NextUI]_vars /\ WF_vars(enabledClick)

----------------------------------------------------------------------------
(* Evaluator harness: calculateWinner and the settling of its result,      *)
(* applied to every board in {Empty, X, O}^9.                              *)

InitEval ==
    /\ GameInit
    /\ squares \in AllBoards
    /\ res = idleRes
    /\ out = idleOut
    /\ evalPc = "call"

Evaluate ==
    /\ evalPc = "call"
    /\ res' = calculateWinner(squares)
    /\ out' = settle(squares, res', <<>>)
    /\ evalPc' = "returned"
    /\ UNCHANGED <<gameVars, themeVars, event, squares>>

NextEval == Evaluate

SpecEval == InitEval /\ [][NextEval]_vars

----------------------------------------------------------------------------
(* Vocabulary of the properties.  The triples are written out here as the  *)
(* specification lists them, independently of the scan in calculateWinner. *)

Triples ==
    << <<0, 1, 2>>, <<3, 4, 5>>, <<6, 7, 8>>,
       <<0, 3, 6>>, <<1, 4, 7>>, <<2, 5, 8>>,
       <<0, 4, 8>>, <<2, 4, 6>> >>

Matches(b, k) ==
    /\ b[Triples[k][1]] # Empty
    /\ b[Triples[k][1]] = b[Triples[k][2]]
    /\ b[Triples[k][1]] = b[Triples[k][3]]

MatchSet(b) == {k \in 1..8 : Matches(b, k)}

FirstMatch(b) == CHOOSE k \in MatchSet(b) : \A j \in MatchSet(b) : k <= j

Full(b) == \A i \in Cells : b[i] # Empty

Filled(b) == {i \in Cells : b[i] # Empty}

AcceptedPlace(e) == e.kind = "place" /\ e.accepted

RejectedPlace(e) == e.kind = "place" /\ ~e.accepted

----------------------------------------------------------------------------
\* C1: in every reachable state the stored outcome is the evaluation of the
\* current board: winner and winningLine are the mark and the indices of the
\* first matching triple (null and the empty line when none matches), and
\* isTie holds exactly when no triple matches and the board is full.
C1_StoredOutcomeIsEvaluation ==
    IF MatchSet(board) = {}
    THEN /\ winner = null
         /\ winningLine = <<>>
         /\ isTie = Full(board)
    ELSE /\ winner = board[Triples[FirstMatch(board)][1]]
         /\ winningLine = Triples[FirstMatch(board)]
         /\ isTie = FALSE

\* A win on the anti-diagonal by O, seen after a later theme toggle.
C1_Witness ==
    /\ winner = "O"
    /\ winningLine = <<2, 4, 6>>
    /\ event.kind = "toggle"

\* C2 (as stated): an accepted place that ends the game leaves isXNext as it
\* was before the call.
C2_TurnKeptWhenGameEnds ==
    [][(AcceptedPlace(event') /\ Outcome' # "InProgress")
           => isXNext' = isXNext]_vars

\* C2 (amended): an accepted place that ends the game (Win or Tie) negates
\* isXNext exactly as one that leaves the game in progress does.
C2_TurnFlippedWhenGameEnds ==
    [][(AcceptedPlace(event') /\ Outcome' # "InProgress")
           => isXNext' = ~isXNext]_vars

\* The ninth placement, by X, has produced a tie and the flag reads "O next".
C2_Witness ==
    /\ AcceptedPlace(event)
    /\ Outcome = "Tie"
    /\ isXNext = FALSE

\* C3: an accepted place whose resulting outcome is InProgress negates the
\* turn; place(0) on the initial game gives board[0] = X, turn O, InProgress.
C3_TurnFlipsWhileInProgress ==
    [][/\ (AcceptedPlace(event') /\ Outcome' = "InProgress")
              => isXNext' = ~isXNext
       /\ ( /\ board = emptyBoard
            /\ isXNext
            /\ Outcome = "InProgress"
            /\ event'.kind = "place"
            /\ event'.idx = 0 )
              => /\ board' = [emptyBoard EXCEPT ![0] = "X"]
                 /\ isXNext' = FALSE
                 /\ Outcome' = "InProgress"]_vars

\* Scenario A: the state right after place(0) on the empty board.
C3_Witness ==
    /\ AcceptedPlace(event)
    /\ event.idx = 0
    /\ board = [emptyBoard EXCEPT ![0] = "X"]
    /\ isXNext = FALSE
    /\ Outcome = "InProgress"

\* C4: place on an occupied cell changes none of board, isXNext, winner,
\* winningLine, isTie, lastMove.
C4_OccupiedPlaceIsNoOp ==
    [][(event'.kind = "place" /\ board[event'.idx] # Empty)
           => UNCHANGED gameVars]_vars

\* A click on an occupied cell while the game is in progress was ignored.
C4_Witness ==
    /\ RejectedPlace(event)
    /\ board[event.idx] # Empty
    /\ event.from = "InProgress"
    /\ Outcome = "InProgress"

\* C5: once the outcome is Win or Tie, place on any index 0..8 changes no
\* part of the game state.
C5_PlaceAfterEndIsNoOp ==
    [][(event'.kind = "place" /\ Outcome # "InProgress")
           => UNCHANGED gameVars]_vars

\* A click on a still-empty cell after a win was ignored.
C5_Witness ==
    /\ RejectedPlace(event)
    /\ event.from = "Win"
    /\ board[event.idx] = Empty
    /\ Outcome = "Win"

\* C6: reset from any state yields the initial game: empty board, X to move,
\* winner null, no winning line, no tie, no last move.
C6_ResetYieldsInitialGame ==
    [][event'.kind = "reset"
           => /\ board' = emptyBoard
              /\ isXNext' = TRUE
              /\ winner' = null
              /\ winningLine' = <<>>
              /\ isTie' = FALSE
              /\ lastMove' = NoMove]_vars

\* A reset that arrived while a win was displayed.
C6_Witness ==
    /\ event.kind = "reset"
    /\ event.from = "Win"
    /\ board = emptyBoard

\* C7: on every board of {Empty, X, O}^9 with at least one matching triple,
\* calculateWinner returns the mark of the first matching triple in the
\* fixed order, and that triple as line.
C7_FirstMatchingTriple ==
    (evalPc = "returned" /\ MatchSet(squares) # {})
        => /\ res.winner = squares[Triples[FirstMatch(squares)][1]]
           /\ res.line = Triples[FirstMatch(squares)]

\* A board with two matching triples of different marks was evaluated.
C7_Witness ==
    /\ evalPc = "returned"
    /\ Cardinality(MatchSet(squares)) >= 2
    /\ squares[0] = "O"
    /\ squares[6] = "X"
    /\ res.winner = "O"
    /\ res.line = <<0, 1, 2>>

\* C8: a board without a matching triple settles as Tie when full and as
\* InProgress when a cell is Empty; a full board with a matching triple
\* settles as Win; winner and isTie are never both set.
C8_TieOnlyWithoutTriple ==
    evalPc = "returned"
        => /\ (MatchSet(squares) = {} /\ Full(squares))
                  => (out.winner = null /\ out.isTie = TRUE)
           /\ (MatchSet(squares) = {} /\ ~Full(squares))
                  => (out.winner = null /\ out.isTie = FALSE)
           /\ (MatchSet(squares) # {} /\ Full(squares))
                  => (out.winner \in Marks /\ out.isTie = FALSE)
           /\ ~(out.winner # null /\ out.isTie)

\* A full board with a line was evaluated and settled as a win.
C8_Witness ==
    /\ evalPc = "returned"
    /\ Full(squares)
    /\ MatchSet(squares) # {}
    /\ out.winner = "X"
    /\ out.isTie = FALSE

\* C9: Win and Tie are terminal.  Every event but reset leaves winner,
\* winningLine and isTie of an ended game as they are; the outcome changes
\* only from InProgress by place or to InProgress by reset.
C9_EndedGameIsTerminal ==
    [][/\ (Outcome # "InProgress" /\ event'.kind # "reset")
              => UNCHANGED <<winner, winningLine, isTie>>
       /\ Outcome' # Outcome
              => \/ Outcome = "InProgress" /\ AcceptedPlace(event')
                 \/ event'.kind = "reset" /\ Outcome' = "InProgress"
       /\ event'.kind = "reset" => Outcome' = "InProgress"]_vars

\* A tie that has survived a later click.
C9_Witness ==
    /\ RejectedPlace(event)
    /\ event.from = "Tie"
    /\ Outcome = "Tie"

\* C10: a place step changes at most the cell it names, from Empty to the
\* mark of the turn before the call; no event but reset changes a filled
\* cell.
C10_SingleCellPlacement ==
    [][/\ event'.kind = "place"
              => \A j \in Cells :
                     board'[j] # board[j]
                         => /\ j = event'.idx
                            /\ board[j] = Empty
                            /\ board'[j] = (IF isXNext THEN "X" ELSE "O")
       /\ event'.kind # "reset"
              => \A j \in Cells : board[j] # Empty => board'[j] = board[j]]_vars

\* O has just been placed on a board that already held other marks.
C10_Witness ==
    /\ AcceptedPlace(event)
    /\ board[event.idx] = "O"
    /\ Cardinality(Filled(board)) >= 4

----------------------------------------------------------------------------
Count(b, m) == Cardinality({i \in Cells : b[i] = m})

\* C11: the number of X cells minus the number of O cells is 0 or 1; while
\* the game is in progress it is X's turn exactly when the counts are equal;
\* an accepted place never writes the mark written by the one before it.
C11_TurnsAlternate ==
    /\ [](/\ Count(board, "X") - Count(board, "O") \in {0, 1}
          /\ Outcome = "InProgress"
                 => (isXNext <=> Count(board, "X") = Count(board, "O")))
    /\ [][(AcceptedPlace(event') /\ lastMove # NoMove)
              => board'[event'.idx] # board[lastMove]]_vars

\* O to move in the middle of a game.
C11_Witness ==
    /\ Outcome = "InProgress"
    /\ isXNext = FALSE
    /\ Count(board, "X") = 3
    /\ Count(board, "O") = 2

\* C12 (as stated): no reachable board has more than one matching triple.
C12_AtMostOneLine == Cardinality(MatchSet(board)) <= 1

\* C12 (amended): a reachable board has at most two matching triples; they
\* carry the same mark and all pass through the last placed cell, so lines
\* of both marks never coexist.
C12_LinesShareLastMove ==
    /\ Cardinality(MatchSet(board)) <= 2
    /\ \A k \in MatchSet(board) :
           /\ board[Triples[k][1]] = winner
           /\ \E p \in 1..3 : Triples[k][p] = lastMove

\* One placement has completed two lines at once.
C12_Witness ==
    /\ Cardinality(MatchSet(board)) = 2
    /\ AcceptedPlace(event)
    /\ Outcome = "Win"

\* C13: a rendered cell is disabled exactly when it is occupied or the game
\* is over, which is exactly when the handler's guard (occupied or winner)
\* ignores a click on it; a click is accepted iff its cell was enabled.
C13_DisabledIffIgnored ==
    /\ [](\A i \in Cells :
              /\ disabled(i) <=> (board[i] # Empty \/ Outcome # "InProgress")
              /\ disabled(i) <=> (board[i] # Empty \/ winner # null))
    /\ [][event'.kind = "place"
              => (event'.accepted <=> ~disabled(event'.idx))]_vars

\* A tie: every cell is disabled by the tie flag and by being occupied,
\* although no winner is set.
C13_Witness ==
    /\ isTie
    /\ winner = null
    /\ \A i \in Cells : disabled(i)
    /\ event.kind = "toggle"

\* C14: the status text is "Winner: mark" on a win, "It's a tie!" on a tie
\* and "Next: m" otherwise, m being the mark the next accepted place writes.
C14_StatusText ==
    /\ [](/\ Outcome = "Win" => statusMsg = <<"Winner: ", winner>>
          /\ Outcome = "Win" => winner \in Marks
          /\ Outcome = "Tie" => statusMsg = <<"It's a tie!", "">>
          /\ Outcome = "InProgress" => statusMsg[1] = "Next: ")
    /\ [][AcceptedPlace(event')
              => statusMsg = <<"Next: ", board'[event'.idx]>>]_vars

\* "Next: O" is shown and O has not moved yet.
C14_Witness ==
    /\ statusMsg = <<"Next: ", "O">>
    /\ Count(board, "X") = 1
    /\ Count(board, "O") = 0

\* C15: the theme is light or dark, starts at light, every toggle flips it,
\* and at every event boundary the data-theme attribute equals the theme.
C15_ThemeFlipsAndIsReflected ==
    /\ theme = "light"
    /\ [](theme \in {"light", "dark"} /\ dataTheme = theme)
    /\ [][event'.kind = "toggle"
              => theme' = (IF theme = "light" THEN "dark" ELSE "light")]_vars

\* The theme is dark and so is the attribute.
C15_Witness ==
    /\ event.kind = "toggle"
    /\ theme = "dark"
    /\ dataTheme = "dark"

\* C16: toggleTheme leaves the game variables unchanged; place and reset
\* leave the theme unchanged, so reset does not return the theme to light.
C16_ThemeAndGameIndependent ==
    [][/\ event'.kind = "toggle" => UNCHANGED gameVars
       /\ event'.kind \in {"place", "reset"} => UNCHANGED themeVars]_vars

\* A reset was processed and the theme is still dark.
C16_Witness ==
    /\ event.kind = "reset"
    /\ theme = "dark"
    /\ board = emptyBoard

\* C17: lastMove is none exactly when the board is empty; otherwise its cell
\* is filled; an accepted place sets it to its index and nothing but an
\* accepted place or a reset changes it.
C17_LastMoveIsLatestPlacement ==
    /\ [](/\ lastMove = NoMove <=> board = emptyBoard
          /\ lastMove # NoMove => (lastMove \in Cells /\ board[lastMove] # Empty))
    /\ [][/\ AcceptedPlace(event') => lastMove' = event'.idx
          /\ event'.kind = "reset" => lastMove' = NoMove
          /\ (RejectedPlace(event') \/ event'.kind = "toggle")
                 => lastMove' = lastMove]_vars

\* A rejected click on another cell left the last move where it was.
C17_Witness ==
    /\ RejectedPlace(event)
    /\ lastMove # NoMove
    /\ lastMove # event.idx

\* C18: in a Win state the winner is the mark on the last placed cell, the
\* winning line contains that cell, X wins only with one mark more than O
\* and O only with as many marks as X.
C18_WinnerMovedLast ==
    Outcome = "Win"
        => /\ lastMove \in Cells
           /\ board[lastMove] = winner
           /\ \E p \in 1..3 : winningLine[p] = lastMove
           /\ winner = "X" => Count(board, "X") = Count(board, "O") + 1
           /\ winner = "O" => Count(board, "X") = Count(board, "O")

\* O has won.
C18_Witness ==
    /\ Outcome = "Win"
    /\ winner = "O"
    /\ board[lastMove] = "O"
    /\ Len(winningLine) = 3

\* C19: an InProgress state has an Empty cell and a click on an Empty cell
\* of a game in progress is accepted; an accepted place adds one filled
\* cell; at most 9 placements are accepted between two resets; with clicks
\* on enabled cells kept coming, every game ends or is reset.
C19_GameAlwaysEnds ==
    /\ [](/\ Outcome = "InProgress" => \E i \in Cells : board[i] = Empty
          /\ event.n <= 9
          /\ event.n = Cardinality(Filled(board)))
    /\ [][/\ ( /\ event'.kind = "place"
               /\ board[event'.idx] = Empty
               /\ Outcome = "InProgress" ) => event'.accepted
          /\ AcceptedPlace(event')
                 => /\ Cardinality(Filled(board'))
                          = Cardinality(Filled(board)) + 1
                    /\ event'.n = event.n + 1]_vars
    /\ []<>(Outcome # "InProgress" \/ event.kind = "reset")

\* The ninth accepted placement of a game.
C19_Witness ==
    /\ AcceptedPlace(event)
    /\ event.n = 9
    /\ Full(board)

====
